---------------------------- MODULE Spec2Model ----------------------------
(***************************************************************************)
(* A model of package itertools (src/itertools/itertools.go): the three    *)
(* combinatorial generators Product, Permutations and Combinations, and    *)
(* the two utilities Count and Compress.                                   *)
(*                                                                         *)
(* Go slices are modelled as functions over 0..len-1, so every index of    *)
(* the model is the index of the source.  The slice of result tuples       *)
(* (results) and the history of emitted index tuples (trace) are TLA+      *)
(* sequences, grown with Append as the source grows them with append.      *)
(* One call runs from pc = "idle" to pc = "done" (the call returned),      *)
(* pc = "panic" (a Go run-time panic) or pc = "diverged" (the loop of      *)
(* Count can never end).                                                   *)
(***************************************************************************)
EXTENDS Integers, Sequences, FiniteSets

(* ------------------------------ bounds -------------------------------- *)

\* longest pool handed to Permutations and Combinations
MaxLen == 4
\* most pools handed to Product
MaxPools == 3
\* most elements in all the pools of one Product call together
MaxTotal == 5
\* longest data / selectors slice handed to Compress
MaxData == 3
\* width in bits of the model's int (Go's int is 64 bits wide; the model
\* keeps two's-complement wrap-around at a width TLC can enumerate)
IntWidth == 3

\* the elements of the pools
Elems == {1, 2}
\* the selector values of Compress
Selectors == {-1, 0, 1}

VARIABLES
    fn,         \* the function being called
    pc,         \* where the call is
    pools,      \* Product: args
    pool,       \* Permutations, Combinations: iterable
    r,          \* Permutations, Combinations: r
    start,      \* Count: start
    stop,       \* Count: stop
    step,       \* Count: step
    data,       \* Compress: data
    selectors,  \* Compress: selectors
    n,          \* len(pool), or Compress's n
    indices,    \* the index array
    cycles,     \* Permutations: the cycle counters
    result,     \* Product: the working buffer
    results,    \* the slice being built
    trace,      \* history: the index tuple of every tuple appended to results
    i           \* the loop variable

vars == <<fn, pc, pools, pool, r, start, stop, step, data, selectors, n,
          indices, cycles, result, results, trace, i>>

(* ------------------------------ slices -------------------------------- *)

\* len(s) of a slice
len(s) == Cardinality(DOMAIN s)

\* the slices over S of length k, and of length at most k
SlicesOfLen(S, k) == [0..(k - 1) -> S]
SlicesUpTo(S, k) == UNION {SlicesOfLen(S, m) : m \in 0..k}

\* make([]int, k): k zeroes
MakeInts(k) == [j \in 0..(k - 1) |-> 0]

\* a tuple stored in results: own says whether the entry has storage of its
\* own (val) or is the working buffer result itself
Own(t) == [own |-> TRUE, val |-> t]
Shared == [own |-> FALSE, val |-> <<>>]

\* what the caller reads in results[k]
Tuple(k) == IF results[k].own THEN results[k].val ELSE result

(* ---------------------------- Go's int -------------------------------- *)

Modulus == 2 ^ IntWidth
MinInt == -(2 ^ (IntWidth - 1))
MaxInt == (2 ^ (IntWidth - 1)) - 1
GoInt == MinInt..MaxInt

\* two's-complement wrap-around of an arithmetic result
Wrap(x) == ((x - MinInt) % Modulus) + MinInt

(* ------------------------------- Init --------------------------------- *)

Init ==
    /\ fn = "none"
    /\ pc = "idle"
    /\ pools = <<>>
    /\ pool = <<>>
    /\ r = 0
    /\ start = 0
    /\ stop = 0
    /\ step = 0
    /\ data = <<>>
    /\ selectors = <<>>
    /\ n = 0
    /\ indices = <<>>
    /\ cycles = <<>>
    /\ result = <<>>
    /\ results = <<>>
    /\ trace = <<>>
    /\ i = 0

(* ------------------------------ Product ------------------------------- *)

RECURSIVE SumTo(_, _)
\* lens[0] + ... + lens[k-1]
SumTo(lens, k) == IF k = 0 THEN 0 ELSE lens[k - 1] + SumTo(lens, k - 1)

\* the pools of the given lengths cut out of the flat slice c
Cut(lens, c) == [k \in DOMAIN lens |-> [j \in 0..(lens[k] - 1) |-> c[SumTo(lens, k) + j]]]

\* the argument lists of Product within the bounds
ProductArgs ==
    UNION { { Cut(lens, c) : c \in SlicesOfLen(Elems, SumTo(lens, len(lens))) } :
            lens \in { l \in SlicesUpTo(0..MaxTotal, MaxPools) : SumTo(l, len(l)) <= MaxTotal } }

\* a scan that starts one pool too far left
ScanStartEarly(npools) == npools - 2

\* the first position of the scan: i := npools - 1
ScanStart(npools) == npools - 1

\* indices[i] == len(pool)
Overflows(index, pl) == index = len(pl)

\* a carry that leaves the buffer's coordinate as it was
CarryResultStale(res, k, pl) == res

\* result[i] = pool[0], on a carry
CarryResult(res, k, pl) == [res EXCEPT ![k] = pl[0]]

\* the pools before the first empty one have their first element copied
FirstElements(args) ==
    [k \in DOMAIN args |->
        IF \A j \in 0..k : len(args[j]) # 0 THEN args[k][0] ELSE 0]

\* Product(args...): up to the first entry of the for loop
Product(args) ==
    /\ fn' = "Product"
    /\ pools' = args
    /\ indices' = MakeInts(len(args))
    /\ result' = FirstElements(args)
    /\ IF \E k \in DOMAIN args : len(args[k]) = 0
       THEN /\ results' = <<>>
            /\ trace' = <<>>
            /\ pc' = "done"
       ELSE /\ results' = <<Shared>>
            /\ trace' = <<MakeInts(len(args))>>
            /\ pc' = "loop"
    /\ UNCHANGED <<pool, r, start, stop, step, data, selectors, n, cycles, i>>

\* for { i := npools - 1
ProductBegin ==
    /\ fn = "Product"
    /\ pc = "loop"
    /\ i' = ScanStart(len(pools))
    /\ pc' = "scan"
    /\ UNCHANGED <<fn, pools, pool, r, start, stop, step, data, selectors, n,
                   indices, cycles, result, results, trace>>

\* one turn of the inner loop in which indices[i] overflows: the carry
ProductCarry ==
    /\ fn = "Product"
    /\ pc = "scan"
    /\ i >= 0
    /\ Overflows(indices[i] + 1, pools[i])
    /\ indices' = [indices EXCEPT ![i] = 0]
    /\ result' = CarryResult(result, i, pools[i])
    /\ i' = i - 1
    /\ UNCHANGED <<fn, pc, pools, pool, r, start, stop, step, data, selectors, n,
                   cycles, results, trace>>

\* one turn of the inner loop that ends in break, and the append after it
ProductAdvance ==
    /\ fn = "Product"
    /\ pc = "scan"
    /\ i >= 0
    /\ ~Overflows(indices[i] + 1, pools[i])
    /\ indices' = [indices EXCEPT ![i] = indices[i] + 1]
    /\ result' = [result EXCEPT ![i] = pools[i][indices[i] + 1]]
    /\ results' = Append(results, Own(result'))
    /\ trace' = Append(trace, indices')
    /\ pc' = "loop"
    /\ UNCHANGED <<fn, pools, pool, r, start, stop, step, data, selectors, n,
                   cycles, i>>

\* if i < 0 { return results }
ProductReturn ==
    /\ fn = "Product"
    /\ pc = "scan"
    /\ i < 0
    /\ pc' = "done"
    /\ UNCHANGED <<fn, pools, pool, r, start, stop, step, data, selectors, n,
                   indices, cycles, result, results, trace, i>>

(* ---------------------------- Permutations ---------------------------- *)

\* the calls of Permutations and of Combinations within the bounds
Pools == SlicesUpTo(Elems, MaxLen)
Lengths == -1..(MaxLen + 1)

\* a test that forgets r == 0
PermDegenerateNoZero(rr, nn) == rr > nn

\* if r > n || r == 0 { return nil }
PermDegenerate(rr, nn) == rr > nn \/ rr = 0

\* indices[i] = i, for i in range indices
Identity(nn) == [k \in 0..(nn - 1) |-> k]

\* counters one too large
InitCyclesOffByOne(nn, rr) == [k \in 0..(rr - 1) |-> nn - k + 1]

\* cycles[i] = n - i, for i in range cycles
InitCycles(nn, rr) == [k \in 0..(rr - 1) |-> nn - k]

\* a rotation that forgets indices[n-1] = index
RotateDropsHead(ind, k, nn) ==
    [j \in DOMAIN ind |->
        IF j < k THEN ind[j] ELSE IF j < nn - 1 THEN ind[j + 1] ELSE ind[j]]

\* indices[k:] rotated left by one
Rotate(ind, k, nn) ==
    [j \in DOMAIN ind |->
        IF j < k THEN ind[j] ELSE IF j < nn - 1 THEN ind[j + 1] ELSE ind[k]]

\* indices[a], indices[b] = indices[b], indices[a]
Swap(ind, a, b) == [ind EXCEPT ![a] = ind[b], ![b] = ind[a]]

\* result[k] = pool[indices[k]], for k < r
Select(pl, ind, rr) == [k \in 0..(rr - 1) |-> pl[ind[k]]]

\* indices[:r]
Prefix(ind, rr) == [k \in 0..(rr - 1) |-> ind[k]]

\* Permutations(iterable, r): up to the first test of the for loop;
\* make([]int, r) panics when r is negative
Permutations(iterable, rr) ==
    /\ fn' = "Permutations"
    /\ pool' = iterable
    /\ r' = rr
    /\ n' = len(iterable)
    /\ IF PermDegenerate(rr, len(iterable))
       THEN /\ pc' = "done"
            /\ results' = <<>>
            /\ UNCHANGED <<indices, cycles, trace>>
       ELSE IF rr < 0
       THEN /\ pc' = "panic"
            /\ indices' = Identity(len(iterable))
            /\ UNCHANGED <<cycles, results, trace>>
       ELSE /\ pc' = "loop"
            /\ indices' = Identity(len(iterable))
            /\ cycles' = InitCycles(len(iterable), rr)
            /\ results' = <<Own(Select(iterable, Identity(len(iterable)), rr))>>
            /\ trace' = <<Prefix(Identity(len(iterable)), rr)>>
    /\ UNCHANGED <<pools, start, stop, step, data, selectors, result, i>>

\* for n > 0 { i := r - 1        (return nil when the loop is not entered)
PermBegin ==
    /\ fn = "Permutations"
    /\ pc = "loop"
    /\ IF n > 0
       THEN /\ i' = r - 1
            /\ pc' = "scan"
            /\ UNCHANGED results
       ELSE /\ results' = <<>>
            /\ pc' = "done"
            /\ UNCHANGED i
    /\ UNCHANGED <<fn, pools, pool, r, start, stop, step, data, selectors, n,
                   indices, cycles, result, trace>>

\* one turn of the inner loop in which cycles[i] reaches 0: the roll-over
PermRotate ==
    /\ fn = "Permutations"
    /\ pc = "scan"
    /\ i >= 0
    /\ cycles[i] - 1 = 0
    /\ indices' = Rotate(indices, i, n)
    /\ cycles' = [cycles EXCEPT ![i] = n - i]
    /\ i' = i - 1
    /\ UNCHANGED <<fn, pc, pools, pool, r, start, stop, step, data, selectors, n,
                   result, results, trace>>

\* one turn of the inner loop that swaps, appends and breaks; an index
\* outside the slice is a run-time panic
PermSwap ==
    /\ fn = "Permutations"
    /\ pc = "scan"
    /\ i >= 0
    /\ cycles[i] - 1 # 0
    /\ cycles' = [cycles EXCEPT ![i] = cycles[i] - 1]
    /\ IF (n - cycles'[i]) \in DOMAIN indices
       THEN /\ indices' = Swap(indices, i, n - cycles'[i])
            /\ results' = Append(results, Own(Select(pool, indices', r)))
            /\ trace' = Append(trace, Prefix(indices', r))
            /\ pc' = "loop"
       ELSE /\ pc' = "panic"
            /\ UNCHANGED <<indices, results, trace>>
    /\ UNCHANGED <<fn, pools, pool, r, start, stop, step, data, selectors, n,
                   result, i>>

\* if i < 0 { return results }
PermReturn ==
    /\ fn = "Permutations"
    /\ pc = "scan"
    /\ i < 0
    /\ pc' = "done"
    /\ UNCHANGED <<fn, pools, pool, r, start, stop, step, data, selectors, n,
                   indices, cycles, result, results, trace, i>>

(* ---------------------------- Combinations ---------------------------- *)

\* if r > n || r == 0 { return nil }
CombDegenerate(rr, nn) == rr > nn \/ rr = 0

\* a maximum one too small
AtMaxEarly(index, k, nn, rr) == index = k + nn - rr - 1

\* indices[i] == i+n-r
AtMax(index, k, nn, rr) == index = k + nn - rr

\* an advance that forgets to reset the positions after k
AdvanceNoReset(ind, k) == [ind EXCEPT ![k] = ind[k] + 1]

\* indices[k] += 1; indices[j] = indices[j-1] + 1, for k < j < r
Advance(ind, k) ==
    [j \in DOMAIN ind |-> IF j < k THEN ind[j] ELSE ind[k] + 1 + (j - k)]

\* Combinations(iterable, r): up to the first entry of the for loop;
\* make([]int, r) panics when r is negative
Combinations(iterable, rr) ==
    /\ fn' = "Combinations"
    /\ pool' = iterable
    /\ r' = rr
    /\ n' = len(iterable)
    /\ IF CombDegenerate(rr, len(iterable))
       THEN /\ pc' = "done"
            /\ results' = <<>>
            /\ UNCHANGED <<indices, trace>>
       ELSE IF rr < 0
       THEN /\ pc' = "panic"
            /\ UNCHANGED <<indices, results, trace>>
       ELSE /\ pc' = "loop"
            /\ indices' = Identity(rr)
            /\ results' = <<Own(Select(iterable, Identity(rr), rr))>>
            /\ trace' = <<Identity(rr)>>
    /\ UNCHANGED <<pools, start, stop, step, data, selectors, cycles, result, i>>

\* for { i := r - 1
CombBegin ==
    /\ fn = "Combinations"
    /\ pc = "loop"
    /\ i' = r - 1
    /\ pc' = "scan"
    /\ UNCHANGED <<fn, pools, pool, r, start, stop, step, data, selectors, n,
                   indices, cycles, result, results, trace>>

\* one turn of: for ; i >= 0 && indices[i] == i+n-r; i -= 1 {}
CombScan ==
    /\ fn = "Combinations"
    /\ pc = "scan"
    /\ i >= 0
    /\ AtMax(indices[i], i, n, r)
    /\ i' = i - 1
    /\ UNCHANGED <<fn, pc, pools, pool, r, start, stop, step, data, selectors, n,
                   indices, cycles, result, results, trace>>

\* the scan stopped at i >= 0: advance indices and append the new tuple; an
\* index outside the pool is a run-time panic
CombAdvance ==
    /\ fn = "Combinations"
    /\ pc = "scan"
    /\ i >= 0
    /\ ~AtMax(indices[i], i, n, r)
    /\ indices' = Advance(indices, i)
    /\ IF \A k \in DOMAIN indices' : indices'[k] \in DOMAIN pool
       THEN /\ results' = Append(results, Own(Select(pool, indices', r)))
            /\ trace' = Append(trace, indices')
            /\ pc' = "loop"
       ELSE /\ pc' = "panic"
            /\ UNCHANGED <<results, trace>>
    /\ UNCHANGED <<fn, pools, pool, r, start, stop, step, data, selectors, n,
                   cycles, result, i>>

\* if i < 0 { return results }
CombReturn ==
    /\ fn = "Combinations"
    /\ pc = "scan"
    /\ i < 0
    /\ pc' = "done"
    /\ UNCHANGED <<fn, pools, pool, r, start, stop, step, data, selectors, n,
                   indices, cycles, result, results, trace, i>>

(* ------------------------------- Count -------------------------------- *)

\* if step*(stop-start) <= 0 { return nil }, in Go's wrapping arithmetic
CountEmpty(st, sp, stp) == Wrap(stp * Wrap(sp - st)) <= 0

\* (step > 0 && i < stop) || (step < 0 && i > stop)
CountContinues(k, sp, stp) == (stp > 0 /\ k < sp) \/ (stp < 0 /\ k > sp)

\* Count(start, stop, step): up to the first test of the for loop
Count(st, sp, stp) ==
    /\ fn' = "Count"
    /\ start' = st
    /\ stop' = sp
    /\ step' = stp
    /\ results' = <<>>
    /\ IF CountEmpty(st, sp, stp)
       THEN /\ pc' = "done"
            /\ UNCHANGED i
       ELSE /\ pc' = "loop"
            /\ i' = st
    /\ UNCHANGED <<pools, pool, r, data, selectors, n, indices, cycles, result, trace>>

\* one turn of the loop: results = append(results, i); i += step
CountAppend ==
    /\ fn = "Count"
    /\ pc = "loop"
    /\ CountContinues(i, stop, step)
    /\ Len(results) < Modulus
    /\ results' = Append(results, i)
    /\ i' = Wrap(i + step)
    /\ UNCHANGED <<fn, pc, pools, pool, r, start, stop, step, data, selectors, n,
                   indices, cycles, result, trace>>

\* the loop condition held 2^IntWidth times in a row: i is back at a value it
\* had before, so the condition holds for ever and the call never returns
CountDiverge ==
    /\ fn = "Count"
    /\ pc = "loop"
    /\ CountContinues(i, stop, step)
    /\ Len(results) >= Modulus
    /\ pc' = "diverged"
    /\ UNCHANGED <<fn, pools, pool, r, start, stop, step, data, selectors, n,
                   indices, cycles, result, results, trace, i>>

\* the loop condition fails: return results
CountReturn ==
    /\ fn = "Count"
    /\ pc = "loop"
    /\ ~CountContinues(i, stop, step)
    /\ pc' = "done"
    /\ UNCHANGED <<fn, pools, pool, r, start, stop, step, data, selectors, n,
                   indices, cycles, result, results, trace, i>>

(* ------------------------------ Compress ------------------------------ *)

\* n := len(data); if len(selectors) < n { n = len(selectors) }
CompressLen(d, s) == IF len(s) < len(d) THEN len(s) ELSE len(d)

\* a test that keeps the zero selectors too
SelectedNonNegative(s) == s >= 0

\* selectors[i] > 0
Selected(s) == s > 0

\* Compress(data, selectors): up to the first test of the for loop
Compress(d, s) ==
    /\ fn' = "Compress"
    /\ data' = d
    /\ selectors' = s
    /\ n' = CompressLen(d, s)
    /\ results' = <<>>
    /\ i' = 0
    /\ pc' = "loop"
    /\ UNCHANGED <<pools, pool, r, start, stop, step, indices, cycles, result, trace>>

\* one turn of the loop with selectors[i] > 0
CompressKeep ==
    /\ fn = "Compress"
    /\ pc = "loop"
    /\ i < n
    /\ Selected(selectors[i])
    /\ results' = Append(results, data[i])
    /\ i' = i + 1
    /\ UNCHANGED <<fn, pc, pools, pool, r, start, stop, step, data, selectors, n,
                   indices, cycles, result, trace>>

\* one turn of the loop with selectors[i] <= 0
CompressSkip ==
    /\ fn = "Compress"
    /\ pc = "loop"
    /\ i < n
    /\ ~Selected(selectors[i])
    /\ i' = i + 1
    /\ UNCHANGED <<fn, pc, pools, pool, r, start, stop, step, data, selectors, n,
                   indices, cycles, result, results, trace>>

\* i < n fails: return results
CompressReturn ==
    /\ fn = "Compress"
    /\ pc = "loop"
    /\ ~(i < n)
    /\ pc' = "done"
    /\ UNCHANGED <<fn, pools, pool, r, start, stop, step, data, selectors, n,
                   indices, cycles, result, results, trace, i>>

(* ------------------------------- Next --------------------------------- *)

\* the calls within the bounds, each started with no call in progress
CallProduct == pc = "idle" /\ \E args \in ProductArgs : Product(args)

CallPermutations == pc = "idle" /\ \E iterable \in Pools, rr \in Lengths : Permutations(iterable, rr)

CallCombinations == pc = "idle" /\ \E iterable \in Pools, rr \in Lengths : Combinations(iterable, rr)

CallCount == pc = "idle" /\ \E st \in GoInt, sp \in GoInt, stp \in GoInt : Count(st, sp, stp)

CallCompress ==
    /\ pc = "idle"
    /\ \E d \in SlicesUpTo(Elems, MaxData), s \in SlicesUpTo(Selectors, MaxData) : Compress(d, s)

Next ==
    \/ CallProduct
    \/ CallPermutations
    \/ CallCombinations
    \/ CallCount
    \/ CallCompress
    \/ ProductBegin
    \/ ProductCarry
    \/ ProductAdvance
    \/ ProductReturn
    \/ PermBegin
    \/ PermRotate
    \/ PermSwap
    \/ PermReturn
    \/ CombBegin
    \/ CombScan
    \/ CombAdvance
    \/ CombReturn
    \/ CountAppend
    \/ CountDiverge
    \/ CountReturn
    \/ CompressKeep
    \/ CompressSkip
    \/ CompressReturn

Spec == Init /\ [][Next]_vars

\* a call that has started keeps running: Go runs it to its end
LiveSpec == Init /\ [][Next]_vars /\ WF_vars(Next)

(* ------------------------- notions of the claims ---------------------- *)

Generators == {"Product", "Permutations", "Combinations"}

\* the elements of a sequence
Range(sq) == {sq[k] : k \in DOMAIN sq}

\* a comes before b in lexicographic order (a and b of the same length)
LexLess(a, b) ==
    \E k \in DOMAIN a :
        /\ a[k] < b[k]
        /\ \A j \in DOMAIN a : j < k => a[j] = b[j]

\* every tuple of the sequence comes before the next one
LexIncreasing(sq) == \A k \in 1..(Len(sq) - 1) : LexLess(sq[k], sq[k + 1])

\* the pool elements at the positions of an index tuple
Through(pl, t) == [k \in DOMAIN t |-> pl[t[k]]]

RECURSIVE LenProduct(_, _)
\* len(ps[0]) * ... * len(ps[k-1])
LenProduct(ps, k) == IF k = 0 THEN 1 ELSE len(ps[k - 1]) * LenProduct(ps, k - 1)

RECURSIVE Falling(_, _)
\* m * (m-1) * ... * (m-k+1)
Falling(m, k) == IF k = 0 THEN 1 ELSE m * Falling(m - 1, k - 1)

\* the binomial coefficient C(m, k)
Choose(m, k) == Falling(m, k) \div Falling(k, k)

\* one position per pool, each within its pool
ProductIndexTuples ==
    {t \in [DOMAIN pools -> 0..(MaxTotal - 1)] : \A k \in DOMAIN pools : t[k] < len(pools[k])}

\* r pairwise-distinct positions of the pool
PermIndexTuples ==
    {t \in [0..(r - 1) -> 0..(n - 1)] : \A a, b \in 0..(r - 1) : a # b => t[a] # t[b]}

\* r strictly increasing positions of the pool
CombIndexTuples ==
    {t \in [0..(r - 1) -> 0..(n - 1)] : \A a, b \in 0..(r - 1) : a < b => t[a] < t[b]}

\* the last tuple appended
LastIndexTuple == trace[Len(trace)]

(* ------------------------------- claims ------------------------------- *)

\* C1: when Product returns, its result holds one tuple per index tuple (one
\* position per pool), each exactly once, in odometer order (last pool
\* fastest, that is, lexicographic order of the index tuples), each the pools'
\* elements at those positions; so the product of the pool lengths many, none
\* when a pool is empty, and the single empty tuple when there are no pools.
C1_Product ==
    (fn = "Product" /\ pc = "done") =>
        /\ Len(results) = Len(trace)
        /\ Len(results) = LenProduct(pools, len(pools))
        /\ Range(trace) = ProductIndexTuples
        /\ LexIncreasing(trace)
        /\ \A k \in 1..Len(results) :
               Tuple(k) = [j \in DOMAIN pools |-> pools[j][trace[k][j]]]
        /\ (\E j \in DOMAIN pools : len(pools[j]) = 0) => results = <<>>
        /\ len(pools) = 0 => (Len(results) = 1 /\ Tuple(1) = <<>>)

C1_Witness ==
    /\ fn = "Product"
    /\ pc = "done"
    /\ len(pools) = 3
    /\ Len(results) = 4
    /\ Tuple(4) # Tuple(1)

\* C2: for 1 <= r <= n, when Permutations returns, its result holds
\* n!/(n-r)! tuples: every sequence of r pairwise-distinct positions exactly
\* once, in lexicographic order, each mapped through the pool.
C2_Permutations ==
    (fn = "Permutations" /\ pc \in {"done", "panic"} /\ 1 <= r /\ r <= n) =>
        /\ pc = "done"
        /\ Len(results) = Len(trace)
        /\ Len(results) = Falling(n, r)
        /\ Range(trace) = PermIndexTuples
        /\ LexIncreasing(trace)
        /\ \A k \in 1..Len(results) : Tuple(k) = Through(pool, trace[k])

C2_Witness ==
    /\ fn = "Permutations"
    /\ pc = "done"
    /\ n = 4
    /\ r = 3
    /\ Len(results) = 24
    /\ pool[0] # pool[3]

\* C3: for 1 <= r <= n, when Combinations returns, its result holds C(n, r)
\* tuples: every strictly increasing sequence of r positions exactly once, in
\* lexicographic order, each mapped through the pool.
C3_Combinations ==
    (fn = "Combinations" /\ pc \in {"done", "panic"} /\ 1 <= r /\ r <= n) =>
        /\ pc = "done"
        /\ Len(results) = Len(trace)
        /\ Len(results) = Choose(n, r)
        /\ Range(trace) = CombIndexTuples
        /\ LexIncreasing(trace)
        /\ \A k \in 1..Len(results) : Tuple(k) = Through(pool, trace[k])

C3_Witness ==
    /\ fn = "Combinations"
    /\ pc = "done"
    /\ n = 4
    /\ r = 2
    /\ Len(results) = 6
    /\ pool[0] # pool[3]

\* C4: Product, Permutations and Combinations never panic, whatever the
\* arguments, negative r included.
C4_NeverPanics == fn \in Generators => pc # "panic"

\* C5: Permutations and Combinations called with r = 0 or r > n return, and
\* return no tuple, for every pool, the empty one included.
C5_DegenerateEmpty ==
    (fn \in {"Permutations", "Combinations"} /\ (r = 0 \/ r > n)) =>
        (pc = "done" /\ results = <<>>)

C5_Witness ==
    /\ fn = "Permutations"
    /\ pc = "done"
    /\ n = 0
    /\ r = 0
    /\ results = <<>>

\* the absolute value
Abs(x) == IF x < 0 THEN -x ELSE x

\* the half-open arithmetic range from st towards sp in steps of stp
CountRange(st, sp, stp) ==
    IF stp * (sp - st) <= 0
    THEN <<>>
    ELSE [k \in 1..((Abs(sp - st) + Abs(stp) - 1) \div Abs(stp)) |-> st + (k - 1) * stp]

\* C6: Count returns, and returns the half-open arithmetic range: nothing when
\* step*(stop-start) <= 0, otherwise start, start+step, ... up to but not
\* including stop.
C6_Count ==
    (fn = "Count" /\ pc # "loop") =>
        (pc = "done" /\ results = CountRange(start, stop, step))

RECURSIVE Kept(_, _, _)
\* the d[j] with j < k and s[j] > 0, in order
Kept(d, s, k) ==
    IF k = 0 THEN <<>>
    ELSE IF s[k - 1] > 0 THEN Append(Kept(d, s, k - 1), d[k - 1])
    ELSE Kept(d, s, k - 1)

\* the smaller of two numbers
Min(a, b) == IF a < b THEN a ELSE b

\* C7: Compress never reads a position beyond the shorter input, and returns
\* the data[i] with i < min(len(data), len(selectors)) and selectors[i] > 0,
\* in order.
C7_Compress ==
    fn = "Compress" =>
        /\ i <= Min(len(data), len(selectors))
        /\ results = Kept(data, selectors, i)
        /\ pc = "done" => i = Min(len(data), len(selectors))

C7_Witness ==
    /\ fn = "Compress"
    /\ pc = "done"
    /\ len(data) = 3
    /\ len(selectors) = 2
    /\ selectors[0] = -1
    /\ selectors[1] = 1
    /\ results = <<data[1]>>

\* the largest index tuple of the running generator
MaxIndexTuple ==
    CASE fn = "Product" -> [k \in DOMAIN pools |-> len(pools[k]) - 1]
      [] fn = "Permutations" -> [k \in 0..(r - 1) |-> n - 1 - k]
      [] fn = "Combinations" -> [k \in 0..(r - 1) |-> k + n - r]

\* the generator has appended its last tuple
Exhausted == fn \in Generators /\ trace # <<>> /\ LastIndexTuple = MaxIndexTuple

\* the state of the index machine in which each generator returns
ReturnedAtEnd ==
    /\ Exhausted
    /\ i < 0
    /\ fn = "Product" => \A k \in DOMAIN indices : indices[k] = 0
    /\ fn = "Permutations" => \A k \in 0..(r - 1) : cycles[k] = n - k
    /\ fn = "Combinations" => \A k \in 0..(r - 1) : indices[k] = k + n - r

\* C8: a generator that has entered its advance loop returns; it returns only
\* with the scan past position 0 and the index machine exhausted (Product: every
\* index carried to 0; Permutations: every counter rolled over; Combinations:
\* every position at i+n-r); and once the last tuple is appended nothing more is.
C8_Terminates ==
    /\ (fn \in Generators /\ pc \in {"loop", "scan"}) ~> (pc = "done")
    /\ []((fn \in Generators /\ pc = "done" /\ results # <<>>) => ReturnedAtEnd)
    /\ [][Exhausted => (Len(results') = Len(results) /\ pc' # "panic")]_vars

C8_Witness ==
    /\ fn = "Permutations"
    /\ pc = "done"
    /\ n = 3
    /\ r = 2
    /\ Len(results) = 6
    /\ ReturnedAtEnd

\* C9: when Product returns, the first entry of the result is the working
\* buffer itself, every later entry has storage of its own, and every entry,
\* the first included, reads as the tuple it was appended as; the first is
\* (pool_0[0], ..., pool_{N-1}[0]).
C9_FirstTupleIntact ==
    (fn = "Product" /\ pc = "done" /\ results # <<>>) =>
        /\ ~results[1].own
        /\ \A k \in 2..Len(results) : results[k].own
        /\ Tuple(1) = [j \in DOMAIN pools |-> pools[j][0]]
        /\ \A k \in 1..Len(results) : Tuple(k) = [j \in DOMAIN pools |-> pools[j][trace[k][j]]]

C9_Witness ==
    /\ fn = "Product"
    /\ pc = "done"
    /\ Len(results) >= 4
    /\ ~results[1].own
    /\ \A k \in 2..Len(results) : Tuple(k) # Tuple(1)

\* C10: in Permutations with 1 <= r <= n, indices is always a permutation of
\* 0..n-1 and 1 <= cycles[i] <= n-i; the swap partner n - cycles[i] lies in
\* i+1..n-1, so no access is out of range; and at the return indices is the
\* identity again and cycles[i] = n-i.
C10_PermInvariant ==
    (fn = "Permutations" /\ 1 <= r /\ r <= n) =>
        /\ pc # "panic"
        /\ DOMAIN indices = 0..(n - 1)
        /\ {indices[k] : k \in DOMAIN indices} = 0..(n - 1)
        /\ \A k \in 0..(r - 1) : 1 <= cycles[k] /\ cycles[k] <= n - k
        /\ (pc = "scan" /\ i >= 0 /\ cycles[i] - 1 # 0) =>
               (n - (cycles[i] - 1)) \in (i + 1)..(n - 1)
        /\ pc = "done" =>
               (indices = [k \in 0..(n - 1) |-> k] /\ \A k \in 0..(r - 1) : cycles[k] = n - k)

C10_Witness ==
    /\ fn = "Permutations"
    /\ pc = "scan"
    /\ n = 4
    /\ r = 3
    /\ i = 1
    /\ cycles[1] = 3
    /\ indices # [k \in 0..3 |-> k]

=============================================================================
